---- MODULE Spec2Model ----
(***************************************************************************)
(* The MCP tools server of src/mcp_server: the FastAPI endpoint            *)
(* handle_mcp_request (server.py) and the MCPServer it drives              *)
(* (services/mcp_server.py).                                               *)
(*                                                                         *)
(* A step of the model is one run of the endpoint's coroutine between two  *)
(* suspension points.  The only await of the handler is the one on         *)
(* tool.execute, so a request is handled in one step, except a tools/call  *)
(* that reaches execute: that one suspends (its frame joins inflight) and  *)
(* is resumed by a later step, when execute returns or raises.             *)
(*                                                                         *)
(* Python values: a str is a TLA+ string, None is the string None below,   *)
(* a dict is a function from its keys, a list is a sequence.  Text that    *)
(* the code builds by formatting is a sequence of its pieces, the empty    *)
(* text being << >>.  The Accept header is a sequence of lexemes, so that  *)
(* split, strip, lower and "in" are computed as the code computes them.    *)
(* MCPSession.created_at and last_activity are not modelled: nothing in    *)
(* the server reads them.                                                  *)
(*                                                                         *)
(* The hand-rolled client of src/agent/clients/custom_mcp_client.py is     *)
(* modelled next to the server.  A response body on the wire is a sequence *)
(* of lexemes (literal text, blanks, newlines, JSON documents), so that    *)
(* the server's framing and the client's line reading, strip, startswith   *)
(* and json.loads are computed as the code computes them.  A step of the   *)
(* client is one HTTP exchange: a POST and the code that runs on its       *)
(* response up to the next await, return or raise.  SpecDecoder runs the   *)
(* event-stream decoder on any stream, SpecRoundTrip sends the server's    *)
(* envelopes through encoder and decoder, SpecCustomClient runs the client *)
(* against the responses of this server and of other servers.              *)
(***************************************************************************)
EXTENDS FiniteSets, Integers, Sequences, TLC

None == "<None>"
NoneObj == [none |-> TRUE]

(* ------------------------------ bounds --------------------------------- *)

\* how many values uuid.uuid4() can still draw
NumSessionIds == 2

(* ----------------------- server.py: constants -------------------------- *)

IdPool == <<"5f1c0a", "9a0b7e", "c27e41", "e83d92", "0b64af">>
SessionIds == {IdPool[i] : i \in 1..NumSessionIds}

protocol_version == "2024-11-05"
server_info == [name |-> "custom-ums-mcp-server", version |-> "1.0.0"]

(* ------------------- server.py: the Accept header ---------------------- *)

NoAccept == <<None>>

Lower(lexeme) ==
    CASE lexeme = "Application/JSON" -> "application/json"
      [] lexeme = "Text/Event-Stream" -> "text/event-stream"
      [] OTHER -> lexeme

\* str.split(','): the pieces between the commas
RECURSIVE Split(_)
Split(s) ==
    IF \A i \in 1..Len(s) : s[i] # ","
    THEN <<s>>
    ELSE LET i == CHOOSE i \in 1..Len(s) : s[i] = "," /\ \A j \in 1..(i - 1) : s[j] # ","
         IN  <<SubSeq(s, 1, i - 1)>> \o Split(SubSeq(s, i + 1, Len(s)))

\* str.strip(): without the leading and trailing blanks
RECURSIVE Strip(_)
Strip(t) ==
    IF t # << >> /\ Head(t) = " " THEN Strip(Tail(t))
    ELSE IF t # << >> /\ t[Len(t)] = " " THEN Strip(SubSeq(t, 1, Len(t) - 1))
    ELSE t

\* str.lower()
LowerAll(t) == [i \in 1..Len(t) |-> Lower(t[i])]

\* 'media/type' in t: the lexemes are whole media types, parameters, commas and
\* blanks, and no media type of AcceptHeaders is part of another lexeme
Contains(t, media_type) == \E i \in 1..Len(t) : t[i] = media_type

\* a validator that asks for JSON only
validate_json_only(accept_header) ==
    IF accept_header = NoAccept \/ accept_header = << >>
    THEN FALSE
    ELSE LET parts == Split(accept_header)
             accept_types == [i \in 1..Len(parts) |-> LowerAll(Strip(parts[i]))]
         IN  \E i \in 1..Len(accept_types) : Contains(accept_types[i], "application/json")

\* a validator that is content with either media type
validate_either(accept_header) ==
    IF accept_header = NoAccept \/ accept_header = << >>
    THEN FALSE
    ELSE LET parts == Split(accept_header)
             accept_types == [i \in 1..Len(parts) |-> LowerAll(Strip(parts[i]))]
             has_json == \E i \in 1..Len(accept_types) : Contains(accept_types[i], "application/json")
             has_sse == \E i \in 1..Len(accept_types) : Contains(accept_types[i], "text/event-stream")
         IN  has_json \/ has_sse

_validate_accept_header(accept_header) ==
    IF accept_header = NoAccept \/ accept_header = << >>
    THEN FALSE
    ELSE LET parts == Split(accept_header)
             accept_types == [i \in 1..Len(parts) |-> LowerAll(Strip(parts[i]))]
             has_json == \E i \in 1..Len(accept_types) : Contains(accept_types[i], "application/json")
             has_sse == \E i \in 1..Len(accept_types) : Contains(accept_types[i], "text/event-stream")
         IN  has_json /\ has_sse

(* ------------------- models: the JSON-RPC envelopes -------------------- *)

\* request.params is None, or a dict from a subset of these keys
NoParams == [none |-> TRUE]

MCPRequest(id, method, params) == [id |-> id, method |-> method, params |-> params]

ErrorResponse(code, message) == [code |-> code, message |-> message]

MCPResponse(id, result, error) ==
    [jsonrpc |-> "2.0", id |-> id, result |-> result, error |-> error]

\* bool(d) of a dict-or-None
Truthy(d) == d # NoParams /\ DOMAIN d # {}

\* d.get(key, default)
Get(d, key, default) == IF key \in DOMAIN d THEN d[key] ELSE default

\* message.dict(exclude_none=True): the fields of the model that are None are
\* left out; result and error are plain dicts and go out as they are
dict_exclude_none(message) ==
    LET keys == {"jsonrpc"}
                \cup (IF message.id # None THEN {"id"} ELSE {})
                \cup (IF message.result # NoneObj THEN {"result"} ELSE {})
                \cup (IF message.error # NoneObj THEN {"error"} ELSE {})
    IN  [k \in keys |-> message[k]]

\* message.model_dump_json(): every member, the None ones as JSON null
model_dump_json(message) == message

(* ---------------------- mcp_server.py: the tools ----------------------- *)

GetUserByIdTool == [name |-> "get_user_by_id", description |-> "Provides full user information by user_id", reads |-> {"id"}]
SearchUsersTool == [name |-> "search_users", description |-> "Searches users by name, surname, email, and gender", reads |-> {}]
CreateUserTool == [name |-> "add_user", description |-> "Adds new user into the system", reads |-> {}]
UpdateUserTool == [name |-> "update_user", description |-> "Updates user info", reads |-> {"id", "new_info"}]
DeleteUserTool == [name |-> "delete_user", description |-> "Deletes user by user_id", reads |-> {"id"}]

ToolClasses == <<GetUserByIdTool, SearchUsersTool, CreateUserTool, UpdateUserTool, DeleteUserTool>>

\* self.tools: a dict keeps its keys in insertion order, so it is the sequence
\* of its values, no two with the same key (tool.name)
Keys(registry) == {registry[i].name : i \in 1..Len(registry)}

Lookup(registry, name) == registry[CHOOSE i \in 1..Len(registry) : registry[i].name = name]

\* self.tools[tool.name] = tool, for each tool of a list, in order
RECURSIVE RegisterAll(_, _)
RegisterAll(registry, list) ==
    IF list = << >>
    THEN registry
    ELSE LET tool == Head(list)
             put == IF tool.name \in Keys(registry)
                    THEN [i \in 1..Len(registry) |->
                             IF registry[i].name = tool.name THEN tool ELSE registry[i]]
                    ELSE Append(registry, tool)
         IN  RegisterAll(put, Tail(list))

_register_tools == RegisterAll(<< >>, ToolClasses)

tools == _register_tools

\* UserClient: the backend answers with a text, or fails
BackendTexts == {<<"User 1: John Doe">>}
BackendErrors == {<<"Cannot connect to host localhost:8041">>, << >>}

NoOutcome == [none |-> TRUE]
Returned(text) == [raised |-> FALSE, text |-> text]
Raised(message) == [raised |-> TRUE, text |-> message]

UserClient == {Returned(t) : t \in BackendTexts} \cup {Raised(e) : e \in BackendErrors}

\* tool.execute(arguments): what the await can end with.  A key that execute
\* reads and the arguments lack is a KeyError before the backend is called.
execute(tool, arguments) ==
    IF \E k \in tool.reads : k \notin DOMAIN arguments
    THEN {Raised(<<"'", k, "'">>) : k \in {k \in tool.reads : k \notin DOMAIN arguments}}
    ELSE UserClient

\* BaseUserServiceTool.to_mcp_tool: the descriptor tools/list advertises
to_mcp_tool(tool) == [name |-> tool.name, description |-> tool.description]

(* ------------------------------ state ---------------------------------- *)

VARIABLES
    sessions,   \* mcp_server.sessions: session id -> MCPSession
    inflight,   \* the handle_mcp_request coroutines suspended in tool.execute 
    current,    \* the HTTP request whose handler ran in the last step
    reply,      \* the HTTP response that step sent, NoReply when it suspended instead
    ended,      \* how tool.execute ended when that step resumed a call, else NoOutcome
    client,     \* the CustomMCPClient: its session_id and its http_session
    pc,         \* where the client's connect stands
    sent,       \* the HTTP request the client posted last
    received,   \* the HTTP response the client read last
    finished,   \* how the client's last call ended: what it returned or raised
    original,   \* the message under way: the MCPResponse a round trip through the
                \* codec started from, the MCPRequest the client posted
    agent       \* the agent's startup: where it stands, tools, tool_name_client_map

server_vars == <<sessions, inflight, current, reply, ended>>
client_vars == <<client, pc, sent, received, finished, original>>
vars == <<sessions, inflight, current, reply, ended, client, pc, sent, received, finished, original, agent>>

\* CustomMCPClient.__init__
CustomMCPClient == [session_id |-> None, http_session |-> None]

\* a response as aiohttp hands it to the client: status, the two headers the
\* client reads, the body, and the exception of a POST that failed instead
ClientResponse(status, content_type, session_id, content) ==
    [status |-> status, content_type |-> content_type, session_id |-> session_id,
     content |-> content, failure |-> None]

NoResponse == ClientResponse(0, << >>, None, << >>)

NoRequest == [method |-> "", id |-> None, mcp_session_id |-> None]

Pending == [pending |-> TRUE]

\* no agent runs
NoAgent ==
    [program |-> "", pc |-> "none", tools |-> << >>, tool_name_client_map |-> << >>,
     source |-> None, failed |-> NoneObj, reported |-> NoneObj]

\* no client runs
InitClient ==
    /\ client = CustomMCPClient
    /\ pc = "new"
    /\ sent = NoRequest
    /\ received = NoResponse
    /\ finished = Pending
    /\ original = NoneObj

MCPSession(session_id) == [session_id |-> session_id, ready_for_operation |-> FALSE]

NoReply == [status_code |-> 0, media_type |-> None, session_id |-> None, body |-> << >>]

\* fastapi.Response(status_code, content, media_type, headers)
Response(status_code, content, media_type, session_id) ==
    [status_code |-> status_code, media_type |-> media_type, session_id |-> session_id,
     body |-> content]

Done == [literal |-> "[DONE]"]

\* a stream that ends without the sentinel
_create_sse_stream_unterminated(messages) ==
    [i \in 1..Len(messages) |-> [data |-> dict_exclude_none(messages[i])]]

_create_sse_stream(messages) ==
    [i \in 1..Len(messages) |-> [data |-> dict_exclude_none(messages[i])]] \o <<[data |-> Done]>>

StreamingResponse(messages, session_id) ==
    [status_code |-> 200, media_type |-> "text/event-stream", session_id |-> session_id,
     body |-> _create_sse_stream(messages)]

\* a generator that may draw a value again
uuid4_any == SessionIds

\* a generator that was called once, when the module was loaded
uuid4_once == {IdPool[1]}

\* uuid.uuid4(): a value that was not drawn before
uuid4 == SessionIds \ DOMAIN sessions

(* ---------------------- mcp_server.py: MCPServer ----------------------- *)

\* self.sessions.get(session_id, MCPSession(session_id))
get_session_default(session_id) ==
    IF session_id \in DOMAIN sessions THEN sessions[session_id] ELSE MCPSession(session_id)

get_session(session_id) ==
    IF session_id \in DOMAIN sessions THEN sessions[session_id] ELSE NoneObj

\* the sessions after self.sessions[session_id] = MCPSession(session_id)
StoreSession(session_id) ==
    [s \in DOMAIN sessions \cup {session_id} |->
        IF s = session_id THEN MCPSession(session_id) ELSE sessions[s]]

handle_initialize(request) ==
    LET version == IF Truthy(request.params)
                   THEN Get(request.params, "protocolVersion", None)
                   ELSE protocol_version
    IN  MCPResponse(request.id,
                    [protocolVersion |-> version,
                     capabilities |-> [tools |-> [listChanged |-> TRUE],
                                       resources |-> None, prompts |-> None],
                     serverInfo |-> server_info],
                    NoneObj)

\* a catalog that stops one tool early
handle_tools_list_short(request) ==
    MCPResponse(request.id,
                [tools |-> [i \in 1..(Len(tools) - 1) |-> to_mcp_tool(tools[i])]],
                NoneObj)

handle_tools_list(request) ==
    MCPResponse(request.id,
                [tools |-> [i \in 1..Len(tools) |-> to_mcp_tool(tools[i])]],
                NoneObj)

\* line 97: if not request.params
ParamsMissing(params) == ~Truthy(params)

\* if tool_name is None
NameIsNone(tool_name) == tool_name = None

\* line 111: if not tool_name
NameMissing(tool_name) == tool_name = None \/ tool_name = ""

\* an unknown tool reported as a parameter error
ToolNotFoundAsInvalidParams(request, tool_name) ==
    MCPResponse(request.id, NoneObj,
                ErrorResponse(-32602, <<"Tool '", tool_name, "' not found">>))

ToolNotFound(request, tool_name) ==
    MCPResponse(request.id, NoneObj,
                ErrorResponse(-32601, <<"Tool '", tool_name, "' not found">>))

\* handle_tools_call up to its await: the error it returns, or NoneObj when it
\* goes on to tool.execute
handle_tools_call(request) ==
    IF ParamsMissing(request.params)
    THEN MCPResponse(request.id, NoneObj, ErrorResponse(-32602, <<"Missing parameters">>))
    ELSE LET tool_name == Get(request.params, "name", None)
         IN  IF NameMissing(tool_name)
             THEN MCPResponse(request.id, NoneObj,
                              ErrorResponse(-32602, <<"Missing required parameter: name">>))
             ELSE IF tool_name \notin Keys(tools)
             THEN ToolNotFound(request, tool_name)
             ELSE NoneObj

\* a handler that reports the failure of execute as a JSON-RPC error
tools_call_result_raises(request, outcome) ==
    IF ~outcome.raised
    THEN MCPResponse(request.id,
                     [content |-> <<[type |-> "text", text |-> outcome.text]>>],
                     NoneObj)
    ELSE MCPResponse(request.id, NoneObj,
                     ErrorResponse(-32603, <<"Tool execution error: ">> \o outcome.text))

\* handle_tools_call from its await on: the result for what execute ended with
tools_call_result(request, outcome) ==
    IF ~outcome.raised
    THEN MCPResponse(request.id,
                     [content |-> <<[type |-> "text", text |-> outcome.text]>>],
                     NoneObj)
    ELSE MCPResponse(request.id,
                     [content |-> <<[type |-> "text",
                                     text |-> <<"Tool execution error: ">> \o outcome.text]>>,
                      isError |-> TRUE],
                     NoneObj)

(* ------------------- server.py: handle_mcp_request --------------------- *)

ServerError(message) ==
    MCPResponse("server-error", NoneObj, ErrorResponse(-32600, message))

JsonBody(message) == <<[json |-> model_dump_json(message)]>>

NotAcceptable ==
    Response(406,
             JsonBody(ServerError(<<"Client must accept both application/json and text/event-stream">>)),
             "application/json", None)

MissingSessionId ==
    Response(400, JsonBody(ServerError(<<"Missing session ID">>)), "application/json", None)

NoValidSession == Response(400, <<[text |-> "No valid session ID provided"]>>, None, None)

\* the rejection of a session that is not ready_for_operation (it repeats the
\* content of MissingSessionId)
NotReady ==
    Response(400, JsonBody(ServerError(<<"Missing session ID">>)), "application/json", None)

\* an acknowledgement without the session-id header
AcceptedWithoutHeader(session) == Response(202, << >>, None, None)

Accepted(session) == Response(202, << >>, None, session.session_id)

MethodNotFound(request) ==
    MCPResponse(request.id, NoneObj,
                ErrorResponse(-32602, <<"Method '", request.method, "' not found">>))

\* line 70: if not mcp_session_id
HeaderMissing(mcp_session_id) == mcp_session_id = None \/ mcp_session_id = ""

\* a handler that does not look at ready_for_operation
UnreadyIgnored(session) == FALSE

\* line 101: if not session.ready_for_operation
Unready(session) == ~session.ready_for_operation

\* an acknowledgement that flips the flag
ActivateToggle(session_id) ==
    [s \in DOMAIN sessions |->
        IF s = session_id
        THEN [sessions[s] EXCEPT !.ready_for_operation = ~sessions[s].ready_for_operation]
        ELSE sessions[s]]

\* an acknowledgement that makes every session of the store ready
ActivateAll(session_id) ==
    [s \in DOMAIN sessions |-> [sessions[s] EXCEPT !.ready_for_operation = TRUE]]

\* an acknowledgement that leaves the session as it was
ActivateNothing(session_id) == sessions

\* line 93: session.ready_for_operation = True, on the session of the store
Activate(session_id) ==
    [s \in DOMAIN sessions |->
        IF s = session_id
        THEN [sessions[s] EXCEPT !.ready_for_operation = TRUE]
        ELSE sessions[s]]

\* what the handler leaves behind: the response it returned (NoReply when it is
\* suspended in execute instead) and the session store
Handled(response, store) == [reply |-> response, sessions |-> store]

\* the endpoint from its first line to its return or to the await of execute;
\* uuid is the value uuid4() draws should the handler reach handle_initialize
handle_mcp_request(request, accept, mcp_session_id, uuid) ==
    IF ~_validate_accept_header(accept)
    THEN Handled(NotAcceptable, sessions)
    ELSE IF request.method = "initialize"
    THEN Handled(StreamingResponse(<<handle_initialize(request)>>, uuid), StoreSession(uuid))
    ELSE IF HeaderMissing(mcp_session_id)
    THEN Handled(MissingSessionId, sessions)
    ELSE LET session == get_session(mcp_session_id)
         IN  IF session = NoneObj
             THEN Handled(NoValidSession, sessions)
             ELSE IF request.method = "notifications/initialized"
             THEN Handled(Accepted(session), Activate(mcp_session_id))
             ELSE IF Unready(session)
             THEN Handled(NotReady, sessions)
             ELSE IF request.method = "tools/list"
             THEN Handled(StreamingResponse(<<handle_tools_list(request)>>, mcp_session_id), sessions)
             ELSE IF request.method = "tools/call"
             THEN LET mcp_response == handle_tools_call(request)
                  IN  IF mcp_response = NoneObj
                      THEN Handled(NoReply, sessions)
                      ELSE Handled(StreamingResponse(<<mcp_response>>, mcp_session_id), sessions)
             ELSE Handled(StreamingResponse(<<MethodNotFound(request)>>, mcp_session_id), sessions)

(* ----------------------------- the requests ---------------------------- *)

\* an HTTP POST to /mcp: the two headers the endpoint reads, and the body
Arrival(accept, mcp_session_id, request) ==
    [accept |-> accept, mcp_session_id |-> mcp_session_id, request |-> request]

\* the Accept header of CustomMCPClient
ClientAccept == <<"application/json", ",", " ", "text/event-stream">>

AcceptHeaders ==
    {NoAccept, << >>, <<"application/json">>, <<"*/*">>,
     ClientAccept,
     <<"Text/Event-Stream", ";q=0.9", " ", ",", "Application/JSON">>}

SessionHeaders == {None, ""} \cup SessionIds

\* correlation ids; no two calls in flight carry the same one
RequestIds == {"r1", "r2"}

ClientInitParams == [protocolVersion |-> "2024-11-05", clientInfo |-> "my-custom-mcp-client"]

InitializeParams ==
    {NoParams, << >>, ClientInitParams,
     [protocolVersion |-> "2025-03-26", clientInfo |-> "my-custom-mcp-client"],
     [clientInfo |-> "my-custom-mcp-client"]}

\* tools/call params that name a registered tool, and params that do not
RegisteredCallParams ==
    {[name |-> "get_user_by_id", arguments |-> [id |-> 1]],
     [name |-> "get_user_by_id"],
     [name |-> "search_users"]}

RejectedCallParams ==
    {NoParams, << >>,
     [arguments |-> [id |-> 1]],
     [name |-> "", arguments |-> [id |-> 1]],
     [name |-> "no_such_tool", arguments |-> [id |-> 1]]}

CallParams == RegisteredCallParams \cup RejectedCallParams

OtherMethods == {"resources/list"}

\* the traffic of clients that send the Accept header the server asks for
ProtocolTraffic ==
    {Arrival(ClientAccept, None, MCPRequest("r1", "initialize", p)) : p \in InitializeParams}
    \cup {Arrival(ClientAccept, h, MCPRequest("r1", "initialize", ClientInitParams)) :
            h \in SessionHeaders}
    \cup {Arrival(ClientAccept, h, MCPRequest(None, "notifications/initialized", NoParams)) :
            h \in SessionHeaders}
    \cup {Arrival(ClientAccept, h, MCPRequest("r1", "tools/list", NoParams)) :
            h \in SessionHeaders}
    \cup {Arrival(ClientAccept, h, MCPRequest("r1", "tools/call", p)) :
            h \in SessionIds, p \in CallParams}
    \cup {Arrival(ClientAccept, h, MCPRequest("r2", "tools/call", p)) :
            h \in SessionHeaders, p \in RegisteredCallParams}
    \cup {Arrival(ClientAccept, h, MCPRequest("r1", m, NoParams)) :
            h \in SessionHeaders, m \in OtherMethods}

\* every Accept header with every session header, one request of each method
HeaderTraffic ==
    {Arrival(a, h, r) :
        a \in AcceptHeaders, h \in SessionHeaders,
        r \in {MCPRequest("r1", "initialize", ClientInitParams),
               MCPRequest(None, "notifications/initialized", NoParams),
               MCPRequest("r1", "tools/list", NoParams),
               MCPRequest("r1", "tools/call", [name |-> "get_user_by_id", arguments |-> [id |-> 1]]),
               MCPRequest("r1", "resources/list", NoParams)}}

(* ------------------------------ actions -------------------------------- *)

Init ==
    /\ sessions = << >>
    /\ inflight = {}
    /\ current = Arrival(NoAccept, None, MCPRequest(None, "", NoParams))
    /\ reply = NoReply
    /\ ended = NoOutcome
    /\ InitClient
    /\ agent = NoAgent

\* an endpoint that takes up a request only when no call is suspended
AdmitsWhenIdle(arrival, suspends) == inflight = {}

\* The endpoint takes no lock: every request that arrives runs as a coroutine
\* of its own, whatever is suspended.  Only the correlation ids are bounded
\* here: no two suspended calls carry the same one.
Admits(arrival, suspends) ==
    suspends => \A frame \in inflight : frame.request.id # arrival.request.id

\* one run of the endpoint on a request that has just arrived: to its response,
\* or to the await of tool.execute
Serve(arrival, uuid) ==
    LET done == handle_mcp_request(arrival.request, arrival.accept, arrival.mcp_session_id, uuid)
    IN  /\ Admits(arrival, done.reply = NoReply)
        /\ sessions' = done.sessions
        /\ inflight' = IF done.reply = NoReply THEN inflight \cup {arrival} ELSE inflight
        /\ current' = arrival
        /\ reply' = done.reply
        /\ ended' = NoOutcome

\* the request of some client the model does not follow
Handle(arrival, uuid) ==
    /\ Serve(arrival, uuid)
    /\ UNCHANGED client_vars
    /\ UNCHANGED agent

Initialize(traffic) ==
    \E arrival \in traffic :
        /\ arrival.request.method = "initialize"
        /\ IF _validate_accept_header(arrival.accept)
           THEN \E uuid \in uuid4 : Handle(arrival, uuid)
           ELSE Handle(arrival, None)

NotificationsInitialized(traffic) ==
    \E arrival \in traffic :
        /\ arrival.request.method = "notifications/initialized"
        /\ Handle(arrival, None)

ToolsList(traffic) ==
    \E arrival \in traffic :
        /\ arrival.request.method = "tools/list"
        /\ Handle(arrival, None)

ToolsCall(traffic) ==
    \E arrival \in traffic :
        /\ arrival.request.method = "tools/call"
        /\ Handle(arrival, None)

OtherMethod(traffic) ==
    \E arrival \in traffic :
        /\ arrival.request.method \in OtherMethods
        /\ Handle(arrival, None)

\* a suspended tools/call is resumed: execute returned or raised, and the
\* handler runs to its return
ExecuteEnds ==
    \E frame \in inflight :
        LET tool == Lookup(tools, frame.request.params.name)
            arguments == Get(frame.request.params, "arguments", << >>)
        IN  \E outcome \in execute(tool, arguments) :
                /\ inflight' = inflight \ {frame}
                /\ current' = frame
                /\ reply' = StreamingResponse(<<tools_call_result(frame.request, outcome)>>,
                                              frame.mcp_session_id)
                /\ ended' = outcome
                /\ UNCHANGED sessions
                /\ UNCHANGED client_vars
                /\ UNCHANGED agent

Next ==
    \/ Initialize(ProtocolTraffic)
    \/ NotificationsInitialized(ProtocolTraffic)
    \/ ToolsList(ProtocolTraffic)
    \/ ToolsCall(ProtocolTraffic)
    \/ OtherMethod(ProtocolTraffic)
    \/ ExecuteEnds

Spec == Init /\ [][Next]_vars

NextHeaders ==
    \/ Initialize(HeaderTraffic)
    \/ NotificationsInitialized(HeaderTraffic)
    \/ ToolsList(HeaderTraffic)
    \/ ToolsCall(HeaderTraffic)
    \/ OtherMethod(HeaderTraffic)
    \/ ExecuteEnds

SpecHeaders == Init /\ [][NextHeaders]_vars

(* ------------------- the body of a response, on the wire --------------- *)

\* Text on the wire is a sequence of lexemes: a literal piece of text, or a
\* JSON document (the text json.dumps writes for a value, the value json.loads
\* reads from it).
Lit(s) == [literal |-> s]
SP == Lit(" ")
CR == Lit("\r")
NL == Lit("\n")

json_dumps(value) == [json |-> value]

\* an event whose colon is not followed by a blank
event_data_tight(record) ==
    <<Lit("data:"), IF record.data = Done THEN Done ELSE json_dumps(record.data), NL, NL>>

\* the chunk _create_sse_stream yields for a record: f"data: {...}\n\n"
event_data(record) ==
    <<Lit("data:"), SP, IF record.data = Done THEN Done ELSE json_dumps(record.data), NL, NL>>

Chunk(record) ==
    IF "data" \in DOMAIN record THEN event_data(record)
    ELSE IF "json" \in DOMAIN record THEN <<json_dumps(record.json)>>
    ELSE <<Lit(record.text)>>

RECURSIVE Content(_)
Content(body) == IF body = << >> THEN << >> ELSE Chunk(Head(body)) \o Content(Tail(body))

\* the content-type header of a response built with media_type: none without a
\* media type, and text/* types get a charset parameter
content_type_header(media_type) ==
    IF media_type = None THEN << >>
    ELSE IF media_type = "text/event-stream" THEN <<media_type, ";", " ", "charset=utf-8">>
    ELSE <<media_type>>

\* the response of the server as the client's HTTP library presents it
OnWire(response) ==
    [status |-> response.status_code,
     content_type |-> content_type_header(response.media_type),
     session_id |-> response.session_id,
     content |-> Content(response.body),
     failure |-> None]

(* ------------- custom_mcp_client.py: the event-stream decoder ---------- *)

Return(value) == [raised |-> FALSE, value |-> value]
Raise(kind, text) == [raised |-> TRUE, kind |-> kind, message |-> text]

\* str.strip() of a line: without the leading and trailing whitespace
IsSpace(lexeme) == lexeme \in {SP, CR, NL}

RECURSIVE strip(_)
strip(t) ==
    IF t # << >> /\ IsSpace(Head(t)) THEN strip(Tail(t))
    ELSE IF t # << >> /\ IsSpace(t[Len(t)]) THEN strip(SubSeq(t, 1, Len(t) - 1))
    ELSE t

startswith(t, prefix) == Len(t) >= Len(prefix) /\ SubSeq(t, 1, Len(prefix)) = prefix

\* async for line in response.content: the content up to each newline, the
\* newline included, and what is left after the last one
RECURSIVE readlines(_)
readlines(content) ==
    IF content = << >>
    THEN << >>
    ELSE IF \A i \in 1..Len(content) : content[i] # NL
    THEN <<content>>
    ELSE LET n == CHOOSE i \in 1..Len(content) :
                      content[i] = NL /\ \A j \in 1..(i - 1) : content[j] # NL
         IN  <<SubSeq(content, 1, n)>> \o readlines(SubSeq(content, n + 1, Len(content)))

\* json.loads(text): the value of the one document the text is, blanks aside
json_loads(text) ==
    LET document == strip(text)
    IN  IF Len(document) = 1 /\ "json" \in DOMAIN document[1]
        THEN Return(document[1].json)
        ELSE Raise("JSONDecodeError", <<"Expecting value">>)

\* the body of the loop on one line: the document to return, NoneObj to go on
ParseLine(line) ==
    LET line_str == strip(line)
    IN  IF line_str = << >> \/ startswith(line_str, <<Lit(":")>>)
        THEN NoneObj
        ELSE IF startswith(line_str, <<Lit("data:"), SP>>)
        THEN LET data_part == strip(SubSeq(line_str, 3, Len(line_str)))
             IN  IF data_part = <<Done>> \/ data_part = << >>
                 THEN NoneObj
                 ELSE LET parsed == json_loads(data_part)
                      IN  IF parsed.raised THEN NoneObj ELSE parsed
        ELSE NoneObj

\* a decoder that hands out an empty envelope when the stream has no record
NoValidJsonAsEmpty(read) == [raised |-> FALSE, value |-> << >>, read |-> read]

\* line 92: the stream ended and no line was returned
NoValidJson(read) ==
    [raised |-> TRUE, kind |-> "RuntimeError",
     message |-> <<"No valid JSON data found in SSE stream">>, read |-> read]

\* the loop from line i on; read is the number of lines taken from the stream
RECURSIVE ParseFrom(_, _)
ParseFrom(lines, i) ==
    IF i > Len(lines)
    THEN NoValidJson(Len(lines))
    ELSE LET parsed == ParseLine(lines[i])
         IN  IF parsed = NoneObj
             THEN ParseFrom(lines, i + 1)
             ELSE [raised |-> FALSE, value |-> parsed.value, read |-> i]

\* a decoder that gives up after the first line
parse_first_line(lines) ==
    IF lines # << >> /\ ParseLine(lines[1]) # NoneObj
    THEN [raised |-> FALSE, value |-> ParseLine(lines[1]).value, read |-> 1]
    ELSE NoValidJson(Len(lines))

_parse_sse_response_streaming(lines) == ParseFrom(lines, 1)

\* ClientResponse.json(): the body as one JSON document, of a response whose
\* content type says JSON
response_json(response) ==
    IF ~Contains(LowerAll(response.content_type), "application/json")
    THEN Raise("ContentTypeError", <<"Attempt to decode JSON with unexpected mimetype">>)
    ELSE json_loads(response.content)

\* lines 59 to 65 of _send_request: the body decoded by its content type
response_data(response) ==
    IF Contains(LowerAll(response.content_type), "text/event-stream")
    THEN _parse_sse_response_streaming(readlines(response.content))
    ELSE response_json(response)

(* ------------- custom_mcp_client.py: requests and calls ---------------- *)

\* bool(s) of a str-or-None
NonEmpty(s) == s # None /\ s # ""

\* the POST the client sends: method, correlation id, session-id header (None
\* when the header is not sent)
Post(method, id, mcp_session_id) == [method |-> method, id |-> id, mcp_session_id |-> mcp_session_id]

\* lines 43-45: the session-id header of a request
request_header(self, method) ==
    IF method # "initialize" /\ NonEmpty(self.session_id) THEN self.session_id ELSE None

\* a notification that goes out without the session-id header
notification_header_none(self) == None

\* lines 132-134: the session-id header of a notification
notification_header(self) == IF NonEmpty(self.session_id) THEN self.session_id ELSE None

\* the POST did not bring a response: aiohttp raised instead
TransportFailure(kind) ==
    [status |-> 0, content_type |-> << >>, session_id |-> None, content |-> << >>, failure |-> kind]

\* lines 67-69: raise RuntimeError(f"MCP Error {code}: {message}")
MCPError(error) ==
    IF error = NoneObj
    THEN Raise("TypeError", <<"'NoneType' object is not subscriptable">>)
    ELSE Raise("RuntimeError", <<"MCP Error ", ToString(error.code), ": ">> \o error.message)

\* _send_request from the response on: the session id the client holds after
\* it, and what the call returns or raises
_send_request(self, response) ==
    IF response.failure # None
    THEN [session_id |-> self.session_id, outcome |-> Raise(response.failure, << >>)]
    ELSE LET session_id == IF ~NonEmpty(self.session_id) /\ NonEmpty(response.session_id)
                           THEN response.session_id
                           ELSE self.session_id
             data == response_data(response)
         IN  [session_id |-> session_id,
              outcome |-> IF response.status = 202 THEN Return(<< >>)
                          ELSE IF data.raised THEN Raise(data.kind, data.message)
                          ELSE IF "error" \in DOMAIN data.value THEN MCPError(data.value.error)
                          ELSE Return(data.value)]

\* _send_notification from the response on: the status is not looked at, and a
\* session-id header of the response replaces the id the client holds
_send_notification(self, response) ==
    IF response.failure # None
    THEN [session_id |-> self.session_id, outcome |-> Raise(response.failure, << >>)]
    ELSE [session_id |-> IF response.session_id # None THEN response.session_id
                         ELSE self.session_id,
          outcome |-> Return(NoneObj)]

\* line 116: raise RuntimeError(f"Failed to connect to MCP server: {e}")
ConnectFailed(e) == Raise("RuntimeError", <<"Failed to connect to MCP server: ">> \o e.message)

NotConnected == Raise("RuntimeError", <<"MCP client not connected. Call connect() first.">>)

\* get_tools from the response on: the catalog in the shape the agent's model
\* is given
get_tools(outcome) ==
    IF outcome.raised THEN outcome
    ELSE IF "result" \notin DOMAIN outcome.value THEN Raise("KeyError", <<"'result'">>)
    ELSE IF "tools" \notin DOMAIN outcome.value.result THEN Raise("KeyError", <<"'tools'">>)
    ELSE LET listed == outcome.value.result.tools
         IN  Return([i \in 1..Len(listed) |->
                        [type |-> "function",
                         function |-> [name |-> listed[i].name,
                                       description |-> Get(listed[i], "description", ""),
                                       parameters |-> Get(listed[i], "inputSchema", << >>)]]])

Placeholder == <<"Unexpected error occurred!">>

\* a call_tool that returns the text of the last content item
call_tool_last_item(outcome) ==
    IF outcome.raised THEN outcome
    ELSE IF "result" \notin DOMAIN outcome.value THEN Raise("KeyError", <<"'result'">>)
    ELSE LET content == Get(outcome.value.result, "content", << >>)
         IN  IF content # << >> /\ DOMAIN content[Len(content)] # {}
             THEN Return(Get(content[Len(content)], "text", << >>))
             ELSE Return(Placeholder)

\* call_tool from the response on
call_tool(outcome) ==
    IF outcome.raised THEN outcome
    ELSE IF "result" \notin DOMAIN outcome.value THEN Raise("KeyError", <<"'result'">>)
    ELSE LET content == Get(outcome.value.result, "content", << >>)
         IN  IF content # << >> /\ DOMAIN content[1] # {}
             THEN Return(Get(content[1], "text", << >>))
             ELSE Return(Placeholder)

(* ---------------------- the decoder on any stream ---------------------- *)

\* how many lines a stream has at most
MaxLines == 3

EmptyResult == [jsonrpc |-> "2.0", id |-> "1", result |-> << >>]
SomeError == [jsonrpc |-> "2.0", id |-> "2", error |-> ErrorResponse(-32601, <<"Tool 'x' not found">>)]

StreamLines ==
    {<<NL>>,
     <<Lit(":"), Lit("comment"), NL>>,
     <<Lit("event: message"), NL>>,
     <<Lit("data:"), SP, NL>>,
     <<Lit("data:"), SP, Done, NL>>,
     <<Lit("data:"), SP, Lit("{\"jsonrpc\": "), NL>>,
     <<Lit("data:"), json_dumps(SomeError), NL>>,
     <<Lit("data:"), SP, json_dumps(EmptyResult), NL>>,
     <<Lit("data:"), SP, json_dumps(SomeError), NL>>,
     <<SP, Lit("data:"), SP, SP, json_dumps(EmptyResult), SP, CR, NL>>}

RECURSIVE Concat(_)
Concat(texts) == IF texts = << >> THEN << >> ELSE Head(texts) \o Concat(Tail(texts))

Streams == {Concat(lines) : lines \in UNION {[1..n -> StreamLines] : n \in 0..MaxLines}}

InitDecoder ==
    /\ sessions = << >>
    /\ inflight = {}
    /\ current = Arrival(NoAccept, None, MCPRequest(None, "", NoParams))
    /\ reply = NoReply
    /\ ended = NoOutcome
    /\ client = CustomMCPClient
    /\ pc = "new"
    /\ sent = NoRequest
    /\ received \in {ClientResponse(200, content_type_header("text/event-stream"), None, stream) :
                        stream \in Streams}
    /\ finished = Pending
    /\ original = NoneObj
    /\ agent = NoAgent

\* the decoder runs on the stream, to its return or its raise
ParseSSE ==
    /\ finished = Pending
    /\ finished' = _parse_sse_response_streaming(readlines(received.content))
    /\ UNCHANGED <<client, pc, sent, received, original>>
    /\ UNCHANGED server_vars
    /\ UNCHANGED agent

NextDecoder == ParseSSE

SpecDecoder == InitDecoder /\ [][NextDecoder]_vars

(* --------------- from the server's encoder to the decoder -------------- *)

\* the envelopes the server builds, for requests of every kind
ResponseEnvelopes ==
    UNION {{handle_initialize(MCPRequest(id, "initialize", p)) : p \in InitializeParams}
           \cup {handle_tools_list(MCPRequest(id, "tools/list", NoParams))}
           \cup {handle_tools_call(MCPRequest(id, "tools/call", p)) : p \in RejectedCallParams}
           \cup {tools_call_result(MCPRequest(id, "tools/call", NoParams), outcome) :
                    outcome \in UserClient \cup execute(GetUserByIdTool, << >>)}
           \cup {MethodNotFound(MCPRequest(id, "resources/list", NoParams))} :
              id \in RequestIds \cup {None}}
    \cup {ServerError(<<"Missing session ID">>),
          ServerError(<<"Client must accept both application/json and text/event-stream">>)}

InitRoundTrip ==
    /\ sessions = << >>
    /\ inflight = {}
    /\ current = Arrival(NoAccept, None, MCPRequest(None, "", NoParams))
    /\ reply = NoReply
    /\ ended = NoOutcome
    /\ client = CustomMCPClient
    /\ pc = "new"
    /\ sent = NoRequest
    /\ received = NoResponse
    /\ finished = Pending
    /\ original \in ResponseEnvelopes
    /\ agent = NoAgent

\* the envelope goes out as an event stream (server.py:128-136)
EncodeStream ==
    /\ reply = NoReply
    /\ reply' = StreamingResponse(<<original>>, None)
    /\ UNCHANGED <<sessions, inflight, current, ended>>
    /\ UNCHANGED client_vars
    /\ UNCHANGED agent

\* the envelope goes out as a JSON document (server.py:54-59)
EncodeJson ==
    /\ reply = NoReply
    /\ reply' = Response(200, JsonBody(original), "application/json", None)
    /\ UNCHANGED <<sessions, inflight, current, ended>>
    /\ UNCHANGED client_vars
    /\ UNCHANGED agent

\* the client reads the response and decodes its body
Decode ==
    /\ reply # NoReply
    /\ finished = Pending
    /\ received' = OnWire(reply)
    /\ finished' = response_data(OnWire(reply))
    /\ UNCHANGED <<client, pc, sent, original>>
    /\ UNCHANGED server_vars
    /\ UNCHANGED agent

NextRoundTrip ==
    \/ EncodeStream
    \/ EncodeJson
    \/ Decode

SpecRoundTrip == InitRoundTrip /\ [][NextRoundTrip]_vars

(* ------------------- the client and what answers it ------------------- *)

\* what this server answers, to whatever request
ServerResponses ==
    {StreamingResponse(<<handle_initialize(MCPRequest("r1", "initialize", ClientInitParams))>>, s) :
        s \in SessionIds}
    \cup {Accepted(MCPSession(s)) : s \in SessionIds}
    \cup {NoValidSession, MissingSessionId, NotAcceptable}
    \cup {StreamingResponse(<<handle_tools_list(MCPRequest("r1", "tools/list", NoParams))>>, s) :
            s \in SessionIds}
    \cup {StreamingResponse(<<tools_call_result(MCPRequest("r1", "tools/call", NoParams), outcome)>>, s) :
            outcome \in UserClient, s \in SessionIds}
    \cup {StreamingResponse(<<ToolNotFound(MCPRequest("r1", "tools/call", NoParams), "no_such_tool")>>, s) :
            s \in SessionIds}

\* tools/call results of other servers: no content, empty content, an empty
\* item, an item without text, several items
ToolResults ==
    {[isError |-> FALSE],
     [content |-> << >>],
     [content |-> << << >> >>],
     [content |-> <<[type |-> "image"]>>],
     [content |-> <<[type |-> "text", text |-> <<"first">>], [type |-> "text", text |-> <<"second">>]>>,
      isError |-> TRUE]}

\* what else a client can meet: a POST that fails, a gateway's 500, a body that
\* is not JSON, a stream without a record, and the results above
OtherResponses ==
    {TransportFailure(kind) : kind \in {"TimeoutError", "ClientConnectorError"}}
    \cup {ClientResponse(500, <<"application/json">>, None,
                         <<json_dumps([detail |-> "Internal Server Error"])>>),
          ClientResponse(200, <<"application/json">>, None, <<Lit("<html>")>>),
          ClientResponse(200, content_type_header("text/event-stream"), None,
                         Content(<<[data |-> Done]>>))}
    \cup {OnWire(StreamingResponse(<<MCPResponse("r1", result, NoneObj)>>, None)) :
            result \in ToolResults}

ClientResponses == {OnWire(response) : response \in ServerResponses} \cup OtherResponses

InitCustomClient ==
    /\ sessions = << >>
    /\ inflight = {}
    /\ current = Arrival(NoAccept, None, MCPRequest(None, "", NoParams))
    /\ reply = NoReply
    /\ ended = NoOutcome
    /\ InitClient
    /\ agent = NoAgent

\* connect, from its first line to the return of the initialize request: the
\* HTTP session is opened, initialize is posted and answered
ConnectInitialize ==
    /\ pc \notin {"connect_113", "closed"}
    /\ \E response \in ClientResponses :
          LET self == [client EXCEPT !.http_session = "open"]
              done == _send_request(self, response)
          IN  /\ sent' = Post("initialize", "r1", request_header(self, "initialize"))
              /\ received' = response
              /\ client' = [self EXCEPT !.session_id = done.session_id]
              /\ finished' = IF done.outcome.raised THEN ConnectFailed(done.outcome) ELSE Pending
              /\ pc' = IF done.outcome.raised THEN "failed" ELSE "connect_113"
    /\ UNCHANGED original
    /\ UNCHANGED server_vars
    /\ UNCHANGED agent

\* connect, from line 113 to its end: the notification is posted and answered
ConnectNotify ==
    /\ pc = "connect_113"
    /\ \E response \in ClientResponses :
          LET done == _send_notification(client, response)
          IN  /\ sent' = Post("notifications/initialized", None, notification_header(client))
              /\ received' = response
              /\ client' = [client EXCEPT !.session_id = done.session_id]
              /\ finished' = IF done.outcome.raised THEN ConnectFailed(done.outcome)
                             ELSE done.outcome
              /\ pc' = IF done.outcome.raised THEN "failed" ELSE "connected"
    /\ UNCHANGED original
    /\ UNCHANGED server_vars
    /\ UNCHANGED agent

\* get_tools: tools/list is posted and answered
GetTools ==
    /\ pc \notin {"connect_113", "closed"}
    /\ IF client.http_session = None
       THEN /\ finished' = NotConnected
            /\ sent' = NoRequest
            /\ received' = NoResponse
            /\ UNCHANGED client
       ELSE \E response \in ClientResponses :
               LET done == _send_request(client, response)
               IN  /\ sent' = Post("tools/list", "r1", request_header(client, "tools/list"))
                   /\ received' = response
                   /\ client' = [client EXCEPT !.session_id = done.session_id]
                   /\ finished' = get_tools(done.outcome)
    /\ UNCHANGED <<pc, original>>
    /\ UNCHANGED server_vars
    /\ UNCHANGED agent

\* call_tool: tools/call is posted and answered
CallTool ==
    /\ pc \notin {"connect_113", "closed"}
    /\ IF client.http_session = None
       THEN /\ finished' = NotConnected
            /\ sent' = NoRequest
            /\ received' = NoResponse
            /\ UNCHANGED client
       ELSE \E response \in ClientResponses :
               LET done == _send_request(client, response)
               IN  /\ sent' = Post("tools/call", "r1", request_header(client, "tools/call"))
                   /\ received' = response
                   /\ client' = [client EXCEPT !.session_id = done.session_id]
                   /\ finished' = call_tool(done.outcome)
    /\ UNCHANGED <<pc, original>>
    /\ UNCHANGED server_vars
    /\ UNCHANGED agent

\* the caller is done with a client whose calls went well, and closes its HTTP
\* session (test.py:168-170); nothing closes it on any other path
Close ==
    /\ pc = "connected"
    /\ finished # Pending
    /\ ~finished.raised
    /\ client' = [client EXCEPT !.http_session = "closed"]
    /\ pc' = "closed"
    /\ UNCHANGED <<sent, received, finished, original>>
    /\ UNCHANGED server_vars
    /\ UNCHANGED agent

NextCustomClient ==
    \/ ConnectInitialize
    \/ ConnectNotify
    \/ GetTools
    \/ CallTool
    \/ Close

SpecCustomClient == InitCustomClient /\ [][NextCustomClient]_vars

(* ---------------- the client against this server, end to end ---------- *)

\* the sessions the server holds when the client starts: none, or the session
\* of an earlier client, Created or Ready
EarlierStores ==
    {<< >>}
    \cup {[s \in {id} |-> [MCPSession(id) EXCEPT !.ready_for_operation = ready]] :
            id \in SessionIds, ready \in BOOLEAN}

\* what the caller passes to call_tool: tool_name and tool_args
ToolNames == {"get_user_by_id", "search_users", "no_such_tool"}
ToolArgs == {[id |-> 2], [gender |-> "female"], << >>}

InitEndToEnd ==
    /\ sessions \in EarlierStores
    /\ inflight = {}
    /\ current = Arrival(NoAccept, None, MCPRequest(None, "", NoParams))
    /\ reply = NoReply
    /\ ended = NoOutcome
    /\ InitClient
    /\ agent = NoAgent

\* connect up to the POST of initialize (lines 96-112), and the endpoint's run
\* on it
SendInitialize ==
    /\ pc = "new"
    /\ LET self == [client EXCEPT !.http_session = "open"]
           request == MCPRequest("r1", "initialize", ClientInitParams)
       IN  /\ \E uuid \in uuid4 :
                 Serve(Arrival(ClientAccept, request_header(self, "initialize"), request), uuid)
           /\ client' = self
           /\ sent' = Post("initialize", "r1", request_header(self, "initialize"))
           /\ original' = request
    /\ pc' = "initialize"
    /\ UNCHANGED <<received, finished>>
    /\ UNCHANGED agent

\* _send_request returns to connect with the response to initialize
ReceiveInitialize ==
    /\ pc = "initialize"
    /\ reply # NoReply
    /\ LET done == _send_request(client, OnWire(reply))
       IN  /\ received' = OnWire(reply)
           /\ client' = [client EXCEPT !.session_id = done.session_id]
           /\ finished' = IF done.outcome.raised THEN ConnectFailed(done.outcome) ELSE Pending
           /\ pc' = IF done.outcome.raised THEN "failed" ELSE "connect_113"
    /\ UNCHANGED <<sent, original>>
    /\ UNCHANGED server_vars
    /\ UNCHANGED agent

\* line 113: the notification is posted, and the endpoint runs on it
SendInitialized ==
    /\ pc = "connect_113"
    /\ LET request == MCPRequest(None, "notifications/initialized", NoParams)
       IN  /\ Serve(Arrival(ClientAccept, notification_header(client), request), None)
           /\ sent' = Post("notifications/initialized", None, notification_header(client))
           /\ original' = request
    /\ pc' = "notifications/initialized"
    /\ UNCHANGED <<client, received, finished>>
    /\ UNCHANGED agent

\* _send_notification returns, and connect with it
ReceiveInitialized ==
    /\ pc = "notifications/initialized"
    /\ reply # NoReply
    /\ LET done == _send_notification(client, OnWire(reply))
       IN  /\ received' = OnWire(reply)
           /\ client' = [client EXCEPT !.session_id = done.session_id]
           /\ finished' = IF done.outcome.raised THEN ConnectFailed(done.outcome)
                          ELSE done.outcome
           /\ pc' = IF done.outcome.raised THEN "failed" ELSE "connected"
    /\ UNCHANGED <<sent, original>>
    /\ UNCHANGED server_vars
    /\ UNCHANGED agent

\* get_tools of the client that create returned: tools/list is posted, and the
\* endpoint runs on it
SendToolsList ==
    /\ pc = "connected"
    /\ LET request == MCPRequest("r1", "tools/list", NoParams)
       IN  /\ Serve(Arrival(ClientAccept, request_header(client, "tools/list"), request), None)
           /\ sent' = Post("tools/list", "r1", request_header(client, "tools/list"))
           /\ original' = request
    /\ pc' = "tools/list"
    /\ finished' = Pending
    /\ UNCHANGED <<client, received>>
    /\ UNCHANGED agent

ReceiveToolsList ==
    /\ pc = "tools/list"
    /\ reply # NoReply
    /\ LET done == _send_request(client, OnWire(reply))
       IN  /\ received' = OnWire(reply)
           /\ client' = [client EXCEPT !.session_id = done.session_id]
           /\ finished' = get_tools(done.outcome)
    /\ pc' = "connected"
    /\ UNCHANGED <<sent, original>>
    /\ UNCHANGED server_vars
    /\ UNCHANGED agent

\* call_tool(tool_name, tool_args): tools/call is posted, and the endpoint runs
\* on it, to its response or to the await of execute
SendToolsCall ==
    /\ pc = "connected"
    /\ \E tool_name \in ToolNames, tool_args \in ToolArgs :
          LET request == MCPRequest("r1", "tools/call",
                                    [name |-> tool_name, arguments |-> tool_args])
          IN  /\ Serve(Arrival(ClientAccept, request_header(client, "tools/call"), request), None)
              /\ sent' = Post("tools/call", "r1", request_header(client, "tools/call"))
              /\ original' = request
    /\ pc' = "tools/call"
    /\ finished' = Pending
    /\ UNCHANGED <<client, received>>
    /\ UNCHANGED agent

ReceiveToolsCall ==
    /\ pc = "tools/call"
    /\ reply # NoReply
    /\ LET done == _send_request(client, OnWire(reply))
       IN  /\ received' = OnWire(reply)
           /\ client' = [client EXCEPT !.session_id = done.session_id]
           /\ finished' = call_tool(done.outcome)
    /\ pc' = "connected"
    /\ UNCHANGED <<sent, original>>
    /\ UNCHANGED server_vars
    /\ UNCHANGED agent

NextEndToEnd ==
    \/ SendInitialize
    \/ ReceiveInitialize
    \/ SendInitialized
    \/ ReceiveInitialized
    \/ SendToolsList
    \/ ReceiveToolsList
    \/ SendToolsCall
    \/ ExecuteEnds
    \/ ReceiveToolsCall
    \/ Close

\* an await of the client returns: the response is there, and the coroutine
\* goes on to the end of the call it is in
AwaitReturns ==
    /\ pc \in {"initialize", "notifications/initialized", "tools/list", "tools/call"}
    /\ reply # NoReply
    /\ pc' \in {"connect_113", "connected", "failed"}

\* create runs connect to its end; the server answers every request it was
\* sent, the backend every call, and the client's coroutine goes on when its
\* await returns.  Whether the caller makes another call, and which, is up to
\* the caller.
SpecEndToEnd ==
    /\ InitEndToEnd
    /\ [][NextEndToEnd]_vars
    /\ WF_vars(SendInitialize)
    /\ WF_vars(SendInitialized)
    /\ WF_vars(ExecuteEnds)
    /\ WF_pc(AwaitReturns)

(* ------------- app.py, test.py: the agent discovers its tools ---------- *)

\* the two programs that set an agent up
Programs == {"main", "test_agent_with_query"}

\* CustomMCPClient.connect on the responses to its two POSTs: the instance
\* after it, and what it returns or raises
connect(self, initialize_response, initialized_response) ==
    LET opened == [self EXCEPT !.http_session = "open"]
        first == _send_request(opened, initialize_response)
        held == [opened EXCEPT !.session_id = first.session_id]
        second == _send_notification(held, initialized_response)
    IN  IF first.outcome.raised
        THEN [self |-> held, outcome |-> ConnectFailed(first.outcome)]
        ELSE IF second.outcome.raised
        THEN [self |-> held, outcome |-> ConnectFailed(second.outcome)]
        ELSE [self |-> [held EXCEPT !.session_id = second.session_id],
              outcome |-> Return(NoneObj)]

\* CustomMCPClient.create: a new instance, connected, or the raise of connect
create(initialize_response, initialized_response) ==
    connect(CustomMCPClient, initialize_response, initialized_response)

\* the catalog of the remote fetch server
FetchCatalog ==
    OnWire(StreamingResponse(
        <<MCPResponse("r1",
                      [tools |-> <<[name |-> "fetch",
                                    description |-> "Fetches a URL from the internet",
                                    inputSchema |-> [type |-> "object"]]>>],
                      NoneObj)>>,
        None))

\* what the remote server can answer
RemoteResponses == ClientResponses \cup {FetchCatalog}

\* MCPClient, the client of the local server that is built on the protocol
\* library: create returns an instance or raises, get_tools returns the
\* catalog of the local server in the shape the model is given, or raises
MCPClientFailure == Raise("ConnectError", <<"All connection attempts failed">>)

MCPClient_create == {Return(NoneObj), MCPClientFailure}

MCPClient_get_tools ==
    {get_tools(Return(dict_exclude_none(handle_tools_list(MCPRequest("r1", "tools/list", NoParams))))),
     MCPClientFailure}

\* the loop of _collect_tools on what get_tools returned: tools.append(tool)
\* and tool_name_client_map[name] = client, for each tool
_collect_tools(self, listed, client_name) ==
    LET names == {listed[i].function.name : i \in 1..Len(listed)}
    IN  [self EXCEPT
            !.tools = self.tools \o listed,
            !.tool_name_client_map =
                [name \in DOMAIN self.tool_name_client_map \cup names |->
                    IF name \in names THEN client_name ELSE self.tool_name_client_map[name]]]

\* an exception that nothing catches before the end of the setup: main ends
\* with it (asyncio.run raises), the test's outer except returns False
Aborted(self, e) == [self EXCEPT !.pc = "aborted", !.failed = e]

\* an exception of the remote source: the test's inner except prints it and
\* goes on (test.py:210-211); main has no handler around lines 28-29
RemoteFailed(self, e) ==
    IF self.program = "test_agent_with_query"
    THEN [self EXCEPT !.pc = "discovered", !.failed = e, !.reported = e]
    ELSE Aborted(self, e)

InitDiscovery ==
    /\ sessions = << >>
    /\ inflight = {}
    /\ current = Arrival(NoAccept, None, MCPRequest(None, "", NoParams))
    /\ reply = NoReply
    /\ ended = NoOutcome
    /\ InitClient
    /\ agent \in {[NoAgent EXCEPT !.program = program, !.pc = "start"] : program \in Programs}

\* ums_mcp_client = await MCPClient.create(...)
CreatePrimary ==
    /\ agent.pc = "start"
    /\ \E outcome \in MCPClient_create :
          LET self == [agent EXCEPT !.source = "ums_mcp_client"]
          IN  agent' = IF outcome.raised THEN Aborted(self, outcome)
                       ELSE [self EXCEPT !.pc = "primary_created"]
    /\ UNCHANGED server_vars
    /\ UNCHANGED client_vars

\* the tools of ums_mcp_client are collected
CollectPrimary ==
    /\ agent.pc = "primary_created"
    /\ \E outcome \in MCPClient_get_tools :
          agent' = IF outcome.raised THEN Aborted(agent, outcome)
                   ELSE [_collect_tools(agent, outcome.value, "ums_mcp_client")
                            EXCEPT !.pc = "primary_collected"]
    /\ UNCHANGED server_vars
    /\ UNCHANGED client_vars

\* fetch_mcp_client = await CustomMCPClient.create(...)
CreateSecondary ==
    /\ agent.pc = "primary_collected"
    /\ \E initialize_response, initialized_response \in RemoteResponses :
          LET created == create(initialize_response, initialized_response)
              self == [agent EXCEPT !.source = "fetch_mcp_client"]
          IN  /\ client' = created.self
              /\ agent' = IF created.outcome.raised THEN RemoteFailed(self, created.outcome)
                          ELSE [self EXCEPT !.pc = "secondary_created"]
    /\ UNCHANGED server_vars
    /\ UNCHANGED <<pc, sent, received, finished, original>>

\* the tools of fetch_mcp_client are collected
CollectSecondary ==
    /\ agent.pc = "secondary_created"
    /\ \E response \in RemoteResponses :
          LET done == _send_request(client, response)
              outcome == get_tools(done.outcome)
          IN  /\ client' = [client EXCEPT !.session_id = done.session_id]
              /\ agent' = IF outcome.raised THEN RemoteFailed(agent, outcome)
                          ELSE [_collect_tools(agent, outcome.value, "fetch_mcp_client")
                                   EXCEPT !.pc = "discovered"]
    /\ UNCHANGED server_vars
    /\ UNCHANGED <<pc, sent, received, finished, original>>

\* dial_client = DialClient(..., tools=tools, tool_name_client_map=...)
CreateDialClient ==
    /\ agent.pc = "discovered"
    /\ agent' = [agent EXCEPT !.pc = "ready"]
    /\ UNCHANGED server_vars
    /\ UNCHANGED client_vars

NextDiscovery ==
    \/ CreatePrimary
    \/ CollectPrimary
    \/ CreateSecondary
    \/ CollectSecondary
    \/ CreateDialClient

SpecDiscovery == InitDiscovery /\ [][NextDiscovery]_vars

(* ------------------------- reading a response -------------------------- *)

\* the header names the media type, in any case, as one of its lexemes
Declares(accept, media_type) ==
    accept # NoAccept /\ \E i \in 1..Len(accept) : Lower(accept[i]) = media_type

DeclaresBoth(accept) ==
    Declares(accept, "application/json") /\ Declares(accept, "text/event-stream")

StateOf(store, session_id) ==
    IF session_id \notin DOMAIN store THEN "Absent"
    ELSE IF store[session_id].ready_for_operation THEN "Ready"
    ELSE "Created"

\* the response carries no event-stream record: no tool list, no tool result
NoData(response) == \A i \in 1..Len(response.body) : "data" \notin DOMAIN response.body[i]

\* the response is an event stream whose first record is a JSON-RPC envelope
IsEnvelope(response) ==
    /\ response.status_code = 200
    /\ Len(response.body) >= 1
    /\ "data" \in DOMAIN response.body[1]
    /\ response.body[1].data # Done

Envelope(response) == response.body[1].data

IsError(response, code) ==
    /\ IsEnvelope(response)
    /\ "error" \in DOMAIN Envelope(response)
    /\ "result" \notin DOMAIN Envelope(response)
    /\ Envelope(response).error.code = code

IsResult(response) ==
    /\ IsEnvelope(response)
    /\ "result" \in DOMAIN Envelope(response)
    /\ "error" \notin DOMAIN Envelope(response)

Method == current.request.method

\* the last step ran the handler on a request with a valid Accept header and
\* the id of a session in this state
OnSession(state) ==
    /\ DeclaresBoth(current.accept)
    /\ StateOf(sessions, current.mcp_session_id) = state

(* ------------------------------- claims -------------------------------- *)

\* C1: a request other than initialize and notifications/initialized that
\* carries a valid Accept header and the id of a session still Created is
\* answered 400, with no tool list and no tool result, and no execute runs for
\* a session that is not Ready.
C1_NotReadyRejected ==
    /\ (OnSession("Created") /\ Method \notin {"initialize", "notifications/initialized"})
          => /\ reply.status_code = 400
             /\ NoData(reply)
             /\ ended = NoOutcome
             /\ current \notin inflight
    /\ \A frame \in inflight : StateOf(sessions, frame.mcp_session_id) = "Ready"

C1_Witness ==
    /\ OnSession("Created")
    /\ Method = "tools/call"
    /\ current.request.params \in RegisteredCallParams
    /\ reply.status_code = 400

\* C2: an initialize with a valid Accept header returns, in the session-id
\* header, a non-empty id that was not in the store before the call and is in
\* it after the call, in state Created.
C2_InitializeMintsFreshSession ==
    [][(current'.request.method = "initialize" /\ DeclaresBoth(current'.accept))
          => /\ reply'.session_id \notin {None, ""}
             /\ reply'.session_id \notin DOMAIN sessions
             /\ StateOf(sessions', reply'.session_id) = "Created"]_vars

C2_Witness ==
    /\ Method = "initialize"
    /\ reply.status_code = 200
    /\ StateOf(sessions, reply.session_id) = "Created"
    /\ \E other \in DOMAIN sessions : other # reply.session_id

\* C3: notifications/initialized on a session of the store leaves it Ready,
\* whether it was Created or Ready, and is answered 202; on an id that is not
\* in the store it is answered 400 and the store stays as it was.
C3_InitializedActivates ==
    [][(current'.request.method = "notifications/initialized" /\ DeclaresBoth(current'.accept))
          => IF current'.mcp_session_id \in DOMAIN sessions
             THEN /\ StateOf(sessions', current'.mcp_session_id) = "Ready"
                  /\ reply'.status_code = 202
                  /\ DOMAIN sessions' = DOMAIN sessions
                  /\ \A s \in DOMAIN sessions \ {current'.mcp_session_id} : sessions'[s] = sessions[s]
             ELSE /\ reply'.status_code = 400
                  /\ sessions' = sessions]_vars

C3_Witness ==
    /\ Method = "notifications/initialized"
    /\ OnSession("Ready")
    /\ reply.status_code = 202
    /\ \E s \in DOMAIN sessions : StateOf(sessions, s) = "Created"

\* C4: when the execute of a tools/call ends, the response is a 200 result
\* envelope without an error member: if execute raised, its one text item is
\* non-empty and holds the failure message, and isError is true; if execute
\* returned, its one text item is the returned text and there is no isError.
C4_ToolFailureIsResult ==
    ended # NoOutcome
       => /\ Method = "tools/call"
          /\ IsResult(reply)
          /\ Envelope(reply).id = current.request.id
          /\ LET result == Envelope(reply).result
             IN  /\ Len(result.content) = 1
                 /\ result.content[1].type = "text"
                 /\ IF ended.raised
                    THEN /\ "isError" \in DOMAIN result /\ result.isError = TRUE
                         /\ result.content[1].text # << >>
                         /\ \E n \in 0..Len(result.content[1].text) :
                               SubSeq(result.content[1].text, n + 1, Len(result.content[1].text)) = ended.text
                    ELSE /\ "isError" \notin DOMAIN result
                         /\ result.content[1].text = ended.text

C4_Witness ==
    /\ ended # NoOutcome
    /\ ended.raised
    /\ ended.text = << >>
    /\ IsResult(reply)
    /\ Envelope(reply).result.isError = TRUE

\* C5: a tools/call on a Ready session whose params name a tool that is not a
\* key of the registry is answered with an error envelope of code -32601 whose
\* message holds the name, and no execute runs for it.
C5_UnknownToolIsMethodNotFound ==
    (/\ OnSession("Ready")
     /\ Method = "tools/call"
     /\ Truthy(current.request.params)
     /\ "name" \in DOMAIN current.request.params
     /\ current.request.params.name \notin Keys(tools) \cup {""})
       => /\ IsError(reply, -32601)
          /\ \E i \in 1..Len(Envelope(reply).error.message) :
                Envelope(reply).error.message[i] = current.request.params.name
          /\ current \notin inflight

C5_Witness ==
    /\ OnSession("Ready")
    /\ Method = "tools/call"
    /\ Truthy(current.request.params)
    /\ Get(current.request.params, "name", None) = "no_such_tool"
    /\ IsError(reply, -32601)

\* C6: a tools/call on a Ready session whose params are absent, empty or
\* without a non-empty name is answered with an error envelope of code -32602
\* and no execute runs for it; params with a name and no arguments are never
\* answered with that code.
C6_MissingNameIsInvalidParams ==
    (OnSession("Ready") /\ Method = "tools/call")
       => LET params == current.request.params
          IN  /\ (\/ params = NoParams
                  \/ DOMAIN params = {}
                  \/ Get(params, "name", "") = "")
                    => (IsError(reply, -32602) /\ current \notin inflight)
              /\ (/\ params # NoParams
                  /\ Get(params, "name", "") # ""
                  /\ "arguments" \notin DOMAIN params)
                    => ~IsError(reply, -32602)

C6_Witness ==
    /\ OnSession("Ready")
    /\ Method = "tools/call"
    /\ current.request.params = [arguments |-> [id |-> 1]]
    /\ IsError(reply, -32602)

\* C7: a request on a Ready session whose method is none of initialize,
\* notifications/initialized, tools/list and tools/call is answered with an
\* error envelope of code -32601.
C7_UnknownMethodCode ==
    (OnSession("Ready")
     /\ Method \notin {"initialize", "notifications/initialized", "tools/list", "tools/call"})
       => IsError(reply, -32601)

C9_SessionRequired ==
    [][(/\ DeclaresBoth(current'.accept)
        /\ current'.request.method # "initialize"
        /\ current'.mcp_session_id \notin DOMAIN sessions)
          => /\ reply'.status_code = 400
             /\ NoData(reply')
             /\ sessions' = sessions
             /\ inflight' = inflight]_vars

C9_Witness ==
    /\ DeclaresBoth(current.accept)
    /\ Method = "notifications/initialized"
    /\ current.mcp_session_id \in SessionIds \ DOMAIN sessions
    /\ reply.status_code = 400
    /\ sessions # << >>

\* C10: tools/list on a Ready session returns a catalog whose names are the
\* keys of the tool registry, each once.
C10_CatalogIsRegistry ==
    (OnSession("Ready") /\ Method = "tools/list")
       => /\ IsResult(reply)
          /\ LET catalog == Envelope(reply).result.tools
             IN  /\ {catalog[i].name : i \in 1..Len(catalog)} = Keys(tools)
                 /\ Len(catalog) = Cardinality(Keys(tools))

C10_Witness ==
    /\ OnSession("Ready")
    /\ Method = "tools/list"
    /\ IsResult(reply)
    /\ Len(Envelope(reply).result.tools) = 5

\* the body is one event-stream data record that holds an envelope, followed by
\* the sentinel record
IsOneRecordStream(response) ==
    /\ response.media_type = "text/event-stream"
    /\ Len(response.body) = 2
    /\ "data" \in DOMAIN response.body[1]
    /\ response.body[1].data # Done
    /\ response.body[2] = [data |-> Done]

\* C11: every response of status 200 (the answer to a dispatched initialize,
\* tools/list, tools/call or other method) is one event-stream data record
\* followed by the sentinel record, and carries the session-id header: the id
\* of a session just created for initialize, the request's id otherwise.  The
\* 406 and 400 rejections and the 202 acknowledgement are not of that form.
C11_DispatchedIsEventStream ==
    reply.status_code = 200
       => /\ IsOneRecordStream(reply)
          /\ IF Method = "initialize"
             THEN StateOf(sessions, reply.session_id) = "Created"
             ELSE reply.session_id = current.mcp_session_id

C11_Witness ==
    /\ reply.status_code = 200
    /\ Method = "tools/call"
    /\ ended # NoOutcome
    /\ IsOneRecordStream(reply)
    /\ reply.session_id = current.mcp_session_id

\* C11 as stated: every response the server produces is one event-stream data
\* record followed by the sentinel, with the session-id header echoed back.
C11_EveryResponseIsEventStream ==
    reply # NoReply
       => /\ IsOneRecordStream(reply)
          /\ IF Method = "initialize"
             THEN StateOf(sessions, reply.session_id) = "Created"
             ELSE reply.session_id = current.mcp_session_id

\* the JSON-RPC envelopes of a response body: those of its event-stream records
\* and those of its JSON documents
Envelopes(response) ==
    {i \in 1..Len(response.body) :
        \/ "data" \in DOMAIN response.body[i] /\ response.body[i].data # Done
        \/ "json" \in DOMAIN response.body[i]}

EnvelopeAt(response, i) ==
    IF "data" \in DOMAIN response.body[i] THEN response.body[i].data ELSE response.body[i].json

\* the envelope has the member, and not as null
Carries(envelope, member) == member \in DOMAIN envelope /\ envelope[member] # NoneObj

\* C12: every JSON-RPC envelope the server emits carries exactly one of result
\* and error, carries the correlation id of the request it answers, and a
\* request is answered by at most one envelope.
C12_OneEnvelopePerRequest ==
    /\ Cardinality(Envelopes(reply)) <= 1
    /\ \A i \in Envelopes(reply) :
          LET envelope == EnvelopeAt(reply, i)
          IN  /\ Carries(envelope, "result") # Carries(envelope, "error")
              /\ "id" \in DOMAIN envelope
              /\ envelope.id = current.request.id

\* C13: notifications/initialized with a valid Accept header and the id of a
\* session of the store is answered 202 with no body and with that session's id
\* in the session-id header: no envelope, no event-stream record.
C13_InitializedAcknowledged ==
    (/\ Method = "notifications/initialized"
     /\ DeclaresBoth(current.accept)
     /\ current.mcp_session_id \in DOMAIN sessions)
       => /\ reply.status_code = 202
          /\ reply.body = << >>
          /\ reply.session_id = sessions[current.mcp_session_id].session_id
          /\ reply.session_id = current.mcp_session_id
          /\ Envelopes(reply) = {}

C13_Witness ==
    /\ Method = "notifications/initialized"
    /\ OnSession("Ready")
    /\ reply.status_code = 202
    /\ reply.session_id \in SessionIds

\* the line is a data record whose payload parses as JSON: blanks aside, it is
\* the data prefix with its blank, followed by one JSON document
IsJsonRecord(line) ==
    \E p, k \in 1..Len(line) :
        /\ p + 1 < k
        /\ line[p] = Lit("data:")
        /\ line[p + 1] = SP
        /\ "json" \in DOMAIN line[k]
        /\ \A i \in 1..Len(line) \ {p, p + 1, k} : IsSpace(line[i])

Payload(line) == line[CHOOSE k \in 1..Len(line) : "json" \in DOMAIN line[k]].json

StreamRead == readlines(received.content)

\* C14: on any event-stream body with a data record that parses as JSON, the
\* decoder returns the payload of the first such record and has read no line
\* after it: blank lines, comment lines, other fields, the sentinel and data
\* that does not parse are passed over, and a later record is never returned.
C14_FirstRecordReturned ==
    (finished # Pending /\ \E i \in 1..Len(StreamRead) : IsJsonRecord(StreamRead[i]))
       => LET first == CHOOSE i \in 1..Len(StreamRead) :
                           /\ IsJsonRecord(StreamRead[i])
                           /\ \A j \in 1..(i - 1) : ~IsJsonRecord(StreamRead[j])
          IN  /\ ~finished.raised
              /\ finished.value = Payload(StreamRead[first])
              /\ finished.value # Done
              /\ finished.read = first

C14_Witness ==
    /\ finished # Pending
    /\ ~finished.raised
    /\ Len(StreamRead) = 3
    /\ StreamRead[1] = <<Lit("data:"), SP, Done, NL>>
    /\ finished.read = 2
    /\ finished.value = EmptyResult
    /\ IsJsonRecord(StreamRead[3])
    /\ Payload(StreamRead[3]) = SomeError

\* C15: on any event-stream body that ends without a data record that parses
\* as JSON, the decoder raises the no-data-in-stream error; what it returns is
\* always the payload of a record of the stream, never an envelope of its own.
C15_NoDataRaises ==
    finished # Pending
       => /\ (\A i \in 1..Len(StreamRead) : ~IsJsonRecord(StreamRead[i]))
                => /\ finished.raised
                   /\ finished.kind = "RuntimeError"
                   /\ finished.message = <<"No valid JSON data found in SSE stream">>
          /\ ~finished.raised
                => \E i \in 1..Len(StreamRead) :
                      IsJsonRecord(StreamRead[i]) /\ finished.value = Payload(StreamRead[i])

C15_Witness ==
    /\ finished # Pending
    /\ finished.raised
    /\ Len(StreamRead) = 3
    /\ StreamRead[1] = <<Lit("data:"), SP, Lit("{\"jsonrpc\": "), NL>>
    /\ StreamRead[3] = <<Lit("data:"), SP, Done, NL>>
    /\ finished.read = 3

\* C16: an envelope the server encodes, as an event-stream body or as a JSON
\* body, is decoded by the client into an envelope with the same id and with
\* the same one of result and error, of the same value; the other member is
\* absent or null.
C16_RoundTrip ==
    finished # Pending
       => /\ ~finished.raised
          /\ Get(finished.value, "id", None) = original.id
          /\ Get(finished.value, "result", NoneObj) = original.result
          /\ Get(finished.value, "error", NoneObj) = original.error
          /\ (original.result = NoneObj) # (original.error = NoneObj)

C16_Witness ==
    /\ finished # Pending
    /\ ~finished.raised
    /\ received.content_type = content_type_header("text/event-stream")
    /\ original.id = "r2"
    /\ original.error # NoneObj
    /\ original.error.code = -32601
    /\ finished.value.error = original.error

\* the step of the handshake that the client ran last ended in error: the POST
\* failed, the status is not 2xx, or the answer to initialize is not an
\* envelope with a result
HandshakeStepErrored ==
    \/ received.failure # None
    \/ received.status \notin 200..299
    \/ /\ sent.method = "initialize"
       /\ \/ received.status = 202
          \/ response_data(received).raised
          \/ "result" \notin DOMAIN response_data(received).value

\* C17: connect fails with the connect-failed error whenever the initialize
\* step or the notifications/initialized step ends in error; it never succeeds
\* when the server rejected the notification.
C17_OpenFailsOnHandshakeError ==
    (sent.method \in {"initialize", "notifications/initialized"} /\ HandshakeStepErrored)
       => /\ pc = "failed"
          /\ finished # Pending
          /\ finished.raised
          /\ startswith(finished.message, <<"Failed to connect to MCP server: ">>)

\* C18: the client takes its session id from the first response that carries
\* the session-id header and never changes it afterwards; every request other
\* than initialize and every notification sent from then on carries that id.
C18_SessionIdFixed ==
    [][/\ (~NonEmpty(client.session_id) /\ NonEmpty(received'.session_id) /\ sent'.method # "")
             => client'.session_id = received'.session_id
       /\ NonEmpty(client.session_id)
             => /\ client'.session_id = client.session_id
                /\ sent'.method \notin {"", "initialize"}
                      => sent'.mcp_session_id = client.session_id]_vars

\* the response the client read last decodes to an envelope with a result
HasResult(response) ==
    /\ response.failure = None
    /\ response.status \notin {0, 202}
    /\ ~response_data(response).raised
    /\ "result" \in DOMAIN response_data(response).value
    /\ "error" \notin DOMAIN response_data(response).value

ResultRead == response_data(received).value.result

\* C19: call_tool returns the text of the first content item of the result;
\* when the result has no content (absent or empty) it returns the placeholder;
\* a result with isError true is returned as text like any other, not raised.
C19_FirstContentText ==
    (sent.method = "tools/call" /\ HasResult(received))
       => LET content == Get(ResultRead, "content", << >>)
          IN  /\ ~finished.raised
              /\ content = << >> => finished.value = Placeholder
              /\ (content # << >> /\ "text" \in DOMAIN content[1])
                    => finished.value = content[1].text

C19_Witness ==
    /\ sent.method = "tools/call"
    /\ HasResult(received)
    /\ "isError" \in DOMAIN ResultRead
    /\ ResultRead.isError
    /\ Len(ResultRead.content) = 2
    /\ ~finished.raised
    /\ finished.value = <<"first">>

\* the response the client read last decodes to an envelope with an error object
HasErrorObject(response) ==
    /\ response.failure = None
    /\ response.status \notin {0, 202}
    /\ ~response_data(response).raised
    /\ "error" \in DOMAIN response_data(response).value
    /\ response_data(response).value.error # NoneObj

\* the kinds of the errors the client raises for a failure of the transport: no
\* data in the stream, a failed connect, a timeout, a body that is not JSON
TransportErrorKinds ==
    {NoValidJson(0).kind, ConnectFailed(Raise("TimeoutError", << >>)).kind,
     "TimeoutError", "ClientConnectorError", "JSONDecodeError", "ContentTypeError"}

\* C20: when the decoded response holds a JSON-RPC error object the client
\* raises, and the kind of what it raises is none of the kinds it raises for a
\* failure of the transport.
C20_ProtocolErrorKind ==
    (sent.method \in {"initialize", "tools/list", "tools/call"} /\ HasErrorObject(received))
       => /\ finished # Pending
          /\ finished.raised
          /\ finished.kind \notin TransportErrorKinds

\* C21: whatever the interleaving, a session's entry changes only in a step
\* that handles a request of its own: it enters the store, Created, in the
\* initialize that returns its id; it becomes Ready in the step that handles a
\* notifications/initialized carrying its id, and every such step on a session
\* of the store leaves it Ready; a request carrying another id, or the end of
\* an execute, leaves its entry as it was.
C21_SessionsIsolated ==
    [][\A s \in SessionIds :
          /\ StateOf(sessions', s) # StateOf(sessions, s)
                => \/ /\ StateOf(sessions, s) = "Absent"
                      /\ StateOf(sessions', s) = "Created"
                      /\ current'.request.method = "initialize"
                      /\ reply'.session_id = s
                   \/ /\ StateOf(sessions, s) = "Created"
                      /\ StateOf(sessions', s) = "Ready"
                      /\ current'.request.method = "notifications/initialized"
                      /\ current'.mcp_session_id = s
          /\ (/\ current'.request.method = "notifications/initialized"
              /\ current'.mcp_session_id = s
              /\ DeclaresBoth(current'.accept)
              /\ s \in DOMAIN sessions)
                => StateOf(sessions', s) = "Ready"
          /\ (s \in DOMAIN sessions /\ current'.mcp_session_id # s)
                => /\ s \in DOMAIN sessions'
                   /\ sessions'[s] = sessions[s]]_vars

C21_Witness ==
    /\ Method = "notifications/initialized"
    /\ reply.status_code = 202
    /\ \E frame \in inflight :
          /\ frame.mcp_session_id # current.mcp_session_id
          /\ StateOf(sessions, frame.mcp_session_id) = "Ready"
    /\ StateOf(sessions, current.mcp_session_id) = "Ready"

\* C22: the result of every initialize holds a protocol version, and when the
\* request named one, that one.
C22_VersionEchoed ==
    (Method = "initialize" /\ IsResult(reply))
       => LET params == current.request.params
              version == Envelope(reply).result.protocolVersion
          IN  /\ version # None
              /\ (Truthy(params) /\ "protocolVersion" \in DOMAIN params)
                    => version = params.protocolVersion

\* C25: a session of the store stays in the store under its id, and a Ready
\* session stays Ready, whatever the step.
C25_SessionsPermanent ==
    [][\A s \in DOMAIN sessions :
          /\ s \in DOMAIN sessions'
          /\ sessions[s].session_id = s
          /\ sessions'[s].session_id = s
          /\ StateOf(sessions, s) = "Ready" => StateOf(sessions', s) = "Ready"]_vars

C25_Witness ==
    /\ DOMAIN sessions = SessionIds
    /\ \A s \in SessionIds : StateOf(sessions, s) = "Ready"
    /\ Method = "notifications/initialized"
    /\ reply.status_code = 202
    /\ inflight # {}

\* in this state the endpoint takes up the request and its handler runs to a
\* response of that status (0: to the await of execute)
Takes(arrival, uuid, status_code) ==
    LET done == handle_mcp_request(arrival.request, arrival.accept, arrival.mcp_session_id, uuid)
    IN  /\ Admits(arrival, done.reply = NoReply)
        /\ done.reply.status_code = status_code

\* C26: while a tools/call is suspended in execute, the endpoint takes up and
\* answers a tools/list and a notifications/initialized on every session of the
\* store, the suspended call's own included, suspends a second tools/call on
\* the same session, and creates a session on initialize; the session of a
\* suspended call was found Ready before the call was suspended, and the call is
\* answered 200 when execute ends, with no second look at the session.
C26_NoLockDuringExecute ==
    /\ inflight # {}
          => /\ \A s \in DOMAIN sessions :
                   /\ Takes(Arrival(ClientAccept, s,
                                    MCPRequest(None, "notifications/initialized", NoParams)),
                            None, 202)
                   /\ StateOf(sessions, s) = "Ready"
                         => Takes(Arrival(ClientAccept, s, MCPRequest("r1", "tools/list", NoParams)),
                                  None, 200)
             /\ \A frame \in inflight :
                   \A id \in RequestIds :
                      (\A other \in inflight : other.request.id # id)
                         => Takes(Arrival(ClientAccept, frame.mcp_session_id,
                                          MCPRequest(id, "tools/call", [name |-> "search_users"])),
                                  None, 0)
             /\ \A uuid \in uuid4 :
                   Takes(Arrival(ClientAccept, None,
                                 MCPRequest("r1", "initialize", ClientInitParams)),
                         uuid, 200)
    /\ \A frame \in inflight :
          /\ DeclaresBoth(frame.accept)
          /\ StateOf(sessions, frame.mcp_session_id) = "Ready"
    /\ ended # NoOutcome => reply.status_code = 200 /\ IsResult(reply)

C26_Witness ==
    /\ Cardinality(inflight) = 2
    /\ \E f, g \in inflight : f.mcp_session_id # g.mcp_session_id
    /\ Method = "tools/list"
    /\ reply.status_code = 200

\* the handler rejects the request at HTTP level: the Accept header does not
\* name both media types, or the request is not an initialize and its session
\* header is missing or names no session, or it is a request for a session
\* that is still Created
RejectedIn(store, arrival) ==
    \/ ~DeclaresBoth(arrival.accept)
    \/ /\ arrival.request.method # "initialize"
       /\ \/ StateOf(store, arrival.mcp_session_id) = "Absent"
          \/ /\ StateOf(store, arrival.mcp_session_id) = "Created"
             /\ arrival.request.method # "notifications/initialized"

\* C29: a request rejected at HTTP level is answered 406 (Accept header) or 400
\* (session), and leaves the store, the state of every session and the
\* suspended calls as they were; no execute starts or ends for it.
C29_RejectionChangesNothing ==
    [][RejectedIn(sessions, current')
          => /\ reply'.status_code = IF DeclaresBoth(current'.accept) THEN 400 ELSE 406
             /\ sessions' = sessions
             /\ inflight' = inflight
             /\ ended' = NoOutcome]_vars

C29_Witness ==
    /\ RejectedIn(sessions, current)
    /\ reply.status_code = 400
    /\ Method = "tools/list"
    /\ StateOf(sessions, current.mcp_session_id) = "Created"
    /\ inflight # {}

\* C30: an initialize with a valid Accept header that carries the id of a
\* session of the store creates a session under another id that was not in the
\* store, Created, returns that id in the session-id header, and leaves every
\* session that was in the store as it was.
C30_InitializeNeverReuses ==
    [][(/\ current'.request.method = "initialize"
        /\ DeclaresBoth(current'.accept)
        /\ current'.mcp_session_id \in DOMAIN sessions)
          => /\ reply'.status_code = 200
             /\ reply'.session_id # current'.mcp_session_id
             /\ reply'.session_id \notin DOMAIN sessions
             /\ StateOf(sessions', reply'.session_id) = "Created"
             /\ DOMAIN sessions' = DOMAIN sessions \cup {reply'.session_id}
             /\ \A s \in DOMAIN sessions : sessions'[s] = sessions[s]]_vars

C30_Witness ==
    /\ Method = "initialize"
    /\ DeclaresBoth(current.accept)
    /\ StateOf(sessions, current.mcp_session_id) = "Ready"
    /\ reply.status_code = 200
    /\ reply.session_id # current.mcp_session_id
    /\ StateOf(sessions, reply.session_id) = "Created"

\* C27: the HTTP session a client opened does not stay open once the client is
\* done: not after the caller's last call, and not after a connect that failed
\* and left the instance to be discarded.
C27_HttpSessionReleased ==
    pc \in {"failed", "closed"} => client.http_session # "open"

\* C28: a tools/list or tools/call is posted only by a client whose connect
\* went through; before connect and after a connect that failed, get_tools and
\* call_tool raise the not-connected error and post nothing.
C28_NoCallBeforeHandshake ==
    /\ sent.method \in {"tools/list", "tools/call"} => pc \in {"connected", "closed"}
    /\ (pc \in {"new", "failed"} /\ sent.method \notin {"initialize", "notifications/initialized"})
          => finished \in {Pending, NotConnected}

\* C24: against this server the client posts initialize first, then
\* notifications/initialized with the session id S the server assigned in the
\* response to initialize, and tools/list and tools/call only after that, with
\* S, when S is Ready; S never changes afterwards.  With every request and
\* every backend call answered, a client that was created gets connected with
\* S Ready, and a call_tool of a registered tool returns, with exactly the
\* text execute returned when it returned one.
C24_HandshakeCompletes ==
    /\ [][/\ (sent' # sent /\ sent'.method = "initialize") => (pc = "new" /\ sent = NoRequest)
          /\ (pc = "connect_113" /\ pc' = "notifications/initialized") =>
                /\ sent.method = "initialize"
                /\ sent'.mcp_session_id = received.session_id
                /\ sent'.mcp_session_id \in SessionIds
                /\ StateOf(sessions, sent'.mcp_session_id) = "Created"
          /\ (pc = "connected" /\ pc' \in {"tools/list", "tools/call"}) =>
                /\ sent'.method = pc'
                /\ sent'.mcp_session_id = client.session_id
                /\ StateOf(sessions, sent'.mcp_session_id) = "Ready"
          /\ pc \notin {"new", "initialize"} => client'.session_id = client.session_id]_vars
    /\ (pc = "new") ~> (pc = "connected" /\ StateOf(sessions, client.session_id) = "Ready")
    /\ (pc = "tools/call" /\ original.params.name \in Keys(tools))
          ~> (/\ pc = "connected"
              /\ sent.method = "tools/call"
              /\ ended # NoOutcome
              /\ ~finished.raised
              /\ ~ended.raised => finished = Return(ended.text))

C24_Witness ==
    /\ pc = "connected"
    /\ sent.method = "tools/call"
    /\ StateOf(sessions, client.session_id) = "Ready"
    /\ ended \in {Returned(text) : text \in BackendTexts}
    /\ finished = Return(ended.text)
    /\ Cardinality(DOMAIN sessions) = 2

\* C23: a failure of the remote fetch server during discovery, in create or in
\* get_tools, does not end the setup: it is reported and skipped, the tools
\* and the bindings of the local server stay as they were collected, and the
\* setup goes on; only a failure of the local server ends it.
C23_SecondaryFailureSkipped ==
    /\ agent.pc = "aborted" => agent.source = "ums_mcp_client"
    /\ (agent.failed # NoneObj /\ agent.source = "fetch_mcp_client") =>
          /\ agent.pc \in {"discovered", "ready"}
          /\ agent.reported = agent.failed
          /\ agent.tools # << >>
          /\ \A i \in 1..Len(agent.tools) :
                agent.tool_name_client_map[agent.tools[i].function.name] = "ums_mcp_client"

\* C31: in every step of a discovery round, each descriptor the step appends
\* to tools is bound by tool_name_client_map to the client that advertised it,
\* and each descriptor collected before stays bound to the client it was
\* bound to, also when the new source advertises a tool of the same name;
\* once discovery is over, neither tools nor the map changes.
C31_ToolsBoundToAdvertiser ==
    [][/\ \A i \in 1..Len(agent'.tools) :
             LET name == agent'.tools[i].function.name
             IN  /\ name \in DOMAIN agent'.tool_name_client_map
                 /\ IF i <= Len(agent.tools)
                    THEN /\ agent'.tools[i] = agent.tools[i]
                         /\ agent'.tool_name_client_map[name] = agent.tool_name_client_map[name]
                    ELSE agent'.tool_name_client_map[name] = agent'.source
       /\ agent.pc \in {"discovered", "ready"} =>
             /\ agent'.tools = agent.tools
             /\ agent'.tool_name_client_map = agent.tool_name_client_map]_vars

====
